---- MODULE Spec2Model ----
(***************************************************************************)
(* Model of the browser-ai extension: the popup's chat sessions            *)
(* (Popup.tsx), the agent's invoke (agent.ts, two revisions), the          *)
(* background service worker (background.ts, two revisions), the approval  *)
(* (human-in-the-loop) flow between them, and the way a tool (tools.ts)    *)
(* reaches the content script of the active tab, and the listener of that *)
(* content script (two revisions).                                         *)
(*                                                                         *)
(* React state is modelled as it is seen by the event handlers: a handler  *)
(* reads the state of the render it was created in, and the part of an     *)
(* async handler that runs after an await still uses the values captured   *)
(* when the handler was invoked.                                           *)
(***************************************************************************)
EXTENDS Integers, Sequences, FiniteSets, TLC

\* ---------------------------------------------------------------- bounds
\* user events of any kind in one run
MaxEvents == 3
\* of which submits and session operations
MaxChatEvents == 2
MaxClock == 2
MaxSessions == 2
\* submits in the specification of the agent's turn
MaxTurns == 1

\* ------------------------------------------------------------- constants
NoSession == [id |-> 0, messages |-> <<>>]
\* the optional tabId of a tool call is absent (undefined)
NoTabId == -1

\* no tool call
NoCall == [name |-> "", args |-> "", tabId |-> NoTabId]

\* pendingApproval is null; interrupt stands for the name and arguments of
\* interrupt.action_requests[0], req is history: the request it came from
NoApproval == [sessionId |-> 0, req |-> 0, interrupt |-> NoCall]

\* agent.invoke has not run yet
NoResponse == [content |-> "", tool_calls |-> <<>>]

\* turn: the handleSubmit invocation; response: the model's response; kind,
\* content, handled: what invoke did with it and returned (as in invoke
\* below); outcome: how the tool's request to the execution context ended
NoInvoke ==
  [turn |-> 0, response |-> NoResponse, kind |-> "none", content |-> "",
   handled |-> <<>>, outcome |-> "none"]

\* build tells which of the three revisions of the extension found in the
\* repository runs:
\*  "background": the popup sends EXECUTE_TASK, the service worker owns the
\*                agents and raises HITL_INTERRUPT (gating agent)
\*  "popup_gated": processAITask runs in the popup, with the agent that
\*                interrupts on sensitive tools
\*  "popup_auto": processAITask runs in the popup, with the agent that never
\*                asks for approval and executes the tool itself

\* texts the user may type
Inputs == {"m1", "m2"}

VARIABLES
  build,            \* which revision of popup / background / agent runs
  activeTab,        \* browser: id of the active tab of the current window
  now,              \* Date.now()
  chatSessions,     \* React state: ChatSession[]
  currentSession,   \* React state: ChatSession | null
  isLoading,        \* React state
  pendingApproval,  \* React state: {sessionId, interrupt, config} | null
  storage,          \* chrome.storage.local: chatSessions, currentSessionId
  turns,            \* handleSubmit invocations suspended at their await
  approvals,        \* handleApproval invocations suspended at their await
  activeAgents,     \* service worker: Map sessionId -> agent
  requests,         \* history: approval requests raised by agent.invoke
  dispatched,       \* history: tool requests sent to the execution context
  lastInvoke,       \* history: the last model response agent.invoke acted on
  nChat,          \* history: number of submits and session operations so far
  nDecisions,       \* history: number of handleApproval calls so far
  script,           \* which revision of the content script runs in the tab
  page,             \* the tab's document: the selectors that match an element
  listener,         \* the last run of the content script's onMessage listener
  wait,             \* the last call of the content script's waitForElement
  local,            \* chrome.storage.local: extension_key, secure_settings
  ops,              \* SecureStorage calls suspended at one of their awaits
  nKeys,            \* history: keys made by crypto.subtle.generateKey so far
  nCalls,           \* history: number of SecureStorage calls so far
  intended,         \* history: per provider, what the last completed call left
  returned          \* history: the SecureStorage call that returned last

vars == <<build, activeTab, now, chatSessions, currentSession, isLoading, pendingApproval,
          storage, turns, approvals, activeAgents, requests, dispatched,
          lastInvoke, nChat, nDecisions, script, page, listener, wait,
          local, ops, nKeys, nCalls, intended, returned>>

\* the state of the popup, the agent and the service worker
sessionVars ==
  <<build, activeTab, now, chatSessions, currentSession, isLoading,
    pendingApproval, storage, turns, approvals, activeAgents, requests,
    dispatched, lastInvoke, nChat, nDecisions>>

\* the state of the execution context (the tab and its content script)
contentVars == <<script, page, listener, wait>>

\* the state of SecureStorage
secureVars == <<local, ops, nKeys, nCalls, intended, returned>>

\* ------------------------------------------------------------- helpers
RemoveAt(s, i) == [j \in 1..(Len(s) - 1) |-> IF j < i THEN s[j] ELSE s[j + 1]]

\* chatSessions.map(s => s.id === id ? replacement : s)
MapReplace(sessions, id, replacement) ==
  [i \in 1..Len(sessions) |->
     IF sessions[i].id = id THEN replacement ELSE sessions[i]]

\* chatSessions.filter(s => s.id !== id)
RECURSIVE FilterOut(_, _)
FilterOut(sessions, id) ==
  IF sessions = <<>> THEN <<>>
  ELSE IF Head(sessions).id = id THEN FilterOut(Tail(sessions), id)
       ELSE <<Head(sessions)>> \o FilterOut(Tail(sessions), id)

Message(type, content) == [type |-> type, content |-> content]

\* history kept with each suspended handleSubmit: the ids of the sessions
\* deleted since it was invoked; an id given to a new session leaves the set
MarkDeleted(ts, id) ==
  [k \in 1..Len(ts) |-> [ts[k] EXCEPT !.deleted = @ \cup {id}]]

MarkCreated(ts, id) ==
  [k \in 1..Len(ts) |-> [ts[k] EXCEPT !.deleted = @ \ {id}]]

\* saveToStorage(sessions, currentSessionId): the id written is
\* currentSessionId || currentSession?.id, with currentSession the value
\* the calling handler closed over; when both are missing the property is
\* undefined and chrome.storage.local.set leaves the stored key as it was.
saveToStorage(sessions, currentSessionId, closureCurrent) ==
  [chatSessions |-> sessions,
   currentSessionId |-> IF currentSessionId # 0 THEN currentSessionId
                        ELSE IF closureCurrent.id # 0 THEN closureCurrent.id
                        ELSE storage.currentSessionId]

\* ------------------------------------------------------------- initial state
\* the listener has not run yet
NoListener ==
  [type |-> "", selector |-> "", answers |-> <<>>, threw |-> FALSE]

\* waitForElement has not been called.  observing: the MutationObserver is
\* connected; timer: the setTimeout callback has not run yet; answers: what
\* the listener sent with sendResponse for the call; resolves: calls of the
\* promise's resolve; appeared is history: the selector matched an element
\* at the call or at some moment before the timer ran
NoWait ==
  [selector |-> "", observing |-> FALSE, timer |-> FALSE, answers |-> <<>>,
   resolves |-> 0, appeared |-> FALSE]

\* provider: 'openai' | 'anthropic'
Providers == {"openai", "anthropic"}

\* string | null: null is the empty tuple, a string s is <<s>>
Null == <<>>

\* secure_settings[`${provider}_api_key`] when the property is not there
NoEntry == [key |-> 0, text |-> ""]

\* chrome.storage.local of a fresh install: no extension_key (0), no
\* secure_settings
NoLocal == [extension_key |-> 0, secure_settings |-> [provider \in Providers |-> NoEntry]]

\* no SecureStorage call has returned yet
NoReturn ==
  [call |-> 0, op |-> "", provider |-> "", apiKey |-> "", value |-> Null,
   error |-> "", before |-> NoLocal, solo |-> TRUE]

\* the two revisions of the content script in the repository: the one of
\* src/content/content.ts and the later one, found after the service worker
\* in src/background/background.ts
ContentScripts == {"content.ts", "background.ts"}

InitState(b, contentScript) ==
  /\ build = b
  /\ script = contentScript
  /\ page = {}
  /\ listener = NoListener
  /\ wait = NoWait
  /\ activeTab = 1
  /\ now = 1
  /\ chatSessions = <<>>
  /\ currentSession = NoSession
  /\ isLoading = FALSE
  /\ pendingApproval = NoApproval
  /\ storage = [chatSessions |-> <<>>, currentSessionId |-> 0]
  /\ turns = <<>>
  /\ approvals = <<>>
  /\ activeAgents = {}
  /\ requests = <<>>
  /\ dispatched = <<>>
  /\ lastInvoke = NoInvoke
  /\ nChat = 0
  /\ nDecisions = 0
  /\ local = NoLocal
  /\ ops = <<>>
  /\ nKeys = 0
  /\ nCalls = 0
  /\ intended = [provider \in Providers |-> Null]
  /\ returned = NoReturn

InitBuild(b) == InitState(b, "background.ts")

\* ------------------------------------------------------------- clock
\* Date.now() is monotonic: a read returns the value of the last read or a
\* later one. now holds the value of the last read.
ClockReads == now..MaxClock

\* ------------------------------------------------------------- sessions
createNewSession(time) ==
  /\ Len(chatSessions) < MaxSessions
  /\ now' = time
  /\ nChat < MaxChatEvents
  /\ nChat + nDecisions < MaxEvents
  /\ nChat' = nChat + 1
  /\ LET newSession == [id |-> time, messages |-> <<>>]
         updatedSessions == Append(chatSessions, newSession)
     IN /\ chatSessions' = updatedSessions
        /\ currentSession' = newSession
        /\ storage' = saveToStorage(updatedSessions, newSession.id, currentSession)
  /\ turns' = MarkCreated(turns, time)
  /\ UNCHANGED <<build, activeTab, contentVars, secureVars, lastInvoke, isLoading, pendingApproval, approvals,
                 activeAgents, requests, dispatched, nDecisions>>

selectSession(i) ==
  /\ i \in 1..Len(chatSessions)
  /\ nChat < MaxChatEvents
  /\ nChat + nDecisions < MaxEvents
  /\ nChat' = nChat + 1
  /\ currentSession' = chatSessions[i]
  /\ storage' = saveToStorage(chatSessions, chatSessions[i].id, currentSession)
  /\ UNCHANGED <<build, activeTab, contentVars, secureVars, lastInvoke, now, chatSessions, isLoading, pendingApproval, turns,
                 approvals, activeAgents, requests, dispatched, nDecisions>>

deleteSession(i) ==
  /\ i \in 1..Len(chatSessions)
  /\ nChat < MaxChatEvents
  /\ nChat + nDecisions < MaxEvents
  /\ nChat' = nChat + 1
  /\ LET sessionId == chatSessions[i].id
         updatedSessions == FilterOut(chatSessions, sessionId)
     IN /\ chatSessions' = updatedSessions
        /\ currentSession' =
             IF currentSession.id = sessionId
             THEN (IF Len(updatedSessions) > 0 THEN updatedSessions[1]
                   ELSE NoSession)
             ELSE currentSession
        /\ storage' = saveToStorage(updatedSessions, 0, currentSession)
        /\ turns' = MarkDeleted(turns, sessionId)
  /\ UNCHANGED <<build, activeTab, contentVars, secureVars, lastInvoke, now, isLoading, pendingApproval, approvals,
                 activeAgents, requests, dispatched, nDecisions>>

\* ------------------------------------------------------------- tools
\* names of the tools exported in allTools
allTools ==
  {"get_page_dom", "find_elements", "click_element", "input_text",
   "select_option", "scroll_page", "navigate_to_url", "go_back", "go_forward",
   "refresh_page", "drag_and_drop", "hover_element", "right_click_element",
   "extract_text", "extract_attribute", "extract_table_data",
   "wait_for_element", "wait_for_page_load", "sleep",
   "request_human_assistance", "take_screenshot", "open_new_tab",
   "get_tabs_list", "switch_to_tab"}

sensitiveTools == {"click_element", "input_text", "navigate_to_url", "select_option"}

\* tool names the modelled language model may ask for; the last one is not
\* registered in allTools
CallNames == {"click_element", "find_elements", "unknown_tool"}

\* arguments of a tool call: "sel" carries the selector the schema requires,
\* "none" lacks it
CallArgs == {"sel", "none"}

\* tabId values the model may supply besides leaving it out
CallTabIds == {0, 2}

ToolCalls ==
  [name : CallNames, args : CallArgs, tabId : {NoTabId}]
  \cup [name : {"find_elements"}, args : {"sel"}, tabId : CallTabIds]

\* zod schema of the selector based tools: selector is a required string
SchemaOk(call) == call.args # "none"

\* what the model collaborator may answer: content (possibly empty) and
\* zero, one or two tool calls
ModelResponses ==
  [content : {"", "answer"},
   tool_calls : {<<>>} \cup {<<c>> : c \in ToolCalls}
                \cup {<<[name |-> "click_element", args |-> "sel", tabId |-> NoTabId],
                         [name |-> "find_elements", args |-> "sel", tabId |-> NoTabId]>>}]

\* requiresApproval as computed by agent.invoke for the first tool call
requiresApprovalAuto(toolCall) == FALSE

requiresApprovalGated(toolCall) == toolCall.name \in sensitiveTools

\* a || b on strings
OrElse(a, b) == IF a # "" THEN a ELSE b

\* ------------------------------------------------------------- model input
\* the first line of systemPrompt stands for the whole instruction
systemPrompt == "You are a Browser Automation Assistant"

SystemMessage(content) == [role |-> "system", content |-> content]
HumanMessage(content) == [role |-> "human", content |-> content]
AIMessage(content) == [role |-> "ai", content |-> content]

\* processAITask: the LangChain messages made from conversationHistory, then
\* "the current message" pushed after them
processAITaskMessages(conversationHistory, userMessage) ==
  [k \in 1..Len(conversationHistory) |->
     IF conversationHistory[k].type = "user"
     THEN HumanMessage(conversationHistory[k].content)
     ELSE AIMessage(conversationHistory[k].content)]
  \o <<HumanMessage(userMessage)>>

\* handleTaskExecution of the service worker: the message of the payload alone
handleTaskExecutionMessages(userMessage) == <<HumanMessage(userMessage)>>

\* agent.invoke: what modelWithTools.invoke is called with
invokeMessages(input) == <<SystemMessage(systemPrompt)>> \o input

\* ------------------------------------------------------------- handleSubmit
\* The synchronous part of handleSubmit, up to its await.
\* via: "button" is the send button (disabled while isLoading), "enter" the
\* textarea's onKeyDown handler, which calls handleSubmit directly.
handleSubmit(input, via, time) ==
  /\ nChat < MaxChatEvents
  /\ nChat + nDecisions < MaxEvents
  /\ via = "button" => ~isLoading
  /\ currentSession = NoSession => Len(chatSessions) < MaxSessions
  /\ now' = IF currentSession = NoSession THEN time ELSE now
  /\ currentSession # NoSession => time = now
  /\ LET session == IF currentSession = NoSession
                    THEN [id |-> time, messages |-> <<>>]
                    ELSE currentSession
         userMessage == Message("user", input)
         updatedMessages == Append(session.messages, userMessage)
         updatedSession == [session EXCEPT !.messages = updatedMessages]
         updatedSessions ==
           IF currentSession # NoSession
           THEN MapReplace(chatSessions, session.id, updatedSession)
           ELSE Append(chatSessions, updatedSession)
     IN /\ currentSession' = updatedSession
        /\ chatSessions' = updatedSessions
        /\ isLoading' = TRUE
        /\ turns' = Append(MarkCreated(turns, session.id),
             [id |-> nChat + 1,
              deleted |-> {},
              messages |-> invokeMessages(
                IF build = "background" THEN handleTaskExecutionMessages(input)
                ELSE processAITaskMessages(updatedMessages, input)),
              session |-> session.id,
              stored |-> storage.chatSessions,
              late |-> FALSE,
              response |-> NoResponse,
              updatedMessages |-> updatedMessages,
              updatedSessions |-> updatedSessions,
              phase |-> IF build = "background" THEN "sent" ELSE "model",
              call |-> NoCall,
              content |-> "",
              req |-> 0])
  /\ nChat' = nChat + 1
  /\ UNCHANGED <<build, activeTab, contentVars, secureVars, lastInvoke, pendingApproval, storage, approvals, activeAgents,
                 requests, dispatched, nDecisions>>

\* The part of handleSubmit after the await, for the turn at index i:
\* content is response.content, approvalReq the interrupt (0 when the
\* response does not require approval).
FinishSubmit(i, content, approvalReq) ==
  LET t == turns[i]
      aiMessage == Message("ai",
        OrElse(content, "I understand your request. Let me help you automate this task."))
      finalMessages == Append(t.updatedMessages, aiMessage)
      finalSession == [id |-> t.session, messages |-> finalMessages]
      finalSessions == MapReplace(t.updatedSessions, t.session, finalSession)
  IN /\ pendingApproval' =
          IF approvalReq # 0
          THEN [sessionId |-> t.session, req |-> approvalReq,
                interrupt |-> requests'[approvalReq].call]
          ELSE pendingApproval
     /\ currentSession' = finalSession
     /\ chatSessions' = finalSessions
     /\ storage' = saveToStorage(finalSessions, t.session, NoSession)
     /\ isLoading' = FALSE
     /\ turns' = RemoveAt(turns, i)

\* ------------------------------------------------------------- agent turn
\* handleTaskExecution of the service worker receives EXECUTE_TASK: the
\* API-key check, then get-or-create of the session's agent.
handleTaskExecution(i, hasApiKey) ==
  /\ build = "background"
  /\ i \in 1..Len(turns)
  /\ turns[i].phase = "sent"
  /\ IF ~hasApiKey
     THEN /\ turns' = [turns EXCEPT ![i].phase = "response",
                ![i].content = "Please configure your API key in settings to use the AI assistant."]
          /\ UNCHANGED activeAgents
     ELSE /\ turns' = [turns EXCEPT ![i].phase = "model"]
          /\ activeAgents' = activeAgents \cup {turns[i].session}
  /\ UNCHANGED <<build, activeTab, contentVars, secureVars, lastInvoke, now, chatSessions, currentSession, isLoading,
                 pendingApproval, storage, approvals, requests, dispatched,
                 nChat, nDecisions>>

NewRequest(sessionId, toolCall) ==
  [sessionId |-> sessionId, call |-> toolCall, sent |-> 0,
   decision |-> "pending", resolved |-> 0]

\* What agent.invoke does with the model's response, up to its return or to
\* the await inside tool.invoke.  kind "interrupt": returns __interrupt__ for
\* call; kind "tool": tool.invoke(call.args) has parsed the arguments and
\* the tool function runs; kind "final": returns.
\* content is the returned content, last the content of the last message of
\* the returned messages (the response itself), handled the tool calls of
\* the response that invoke took up.
\* The agent that gates sensitive tools; other tool calls are not acted on.
invokeGated(response) ==
  IF Len(response.tool_calls) > 0 /\ requiresApprovalGated(response.tool_calls[1])
  THEN [kind |-> "interrupt", content |-> response.content,
        last |-> response.content, call |-> response.tool_calls[1],
        handled |-> <<response.tool_calls[1]>>]
  ELSE [kind |-> "final",
        content |-> OrElse(response.content, "Task completed successfully."),
        last |-> response.content, call |-> NoCall, handled |-> <<>>]

\* invokeAuto without the check that allTools.find found the tool: invoke is
\* then read from undefined and the TypeError lands in the catch
invokeAutoUnchecked(response) ==
  IF Len(response.tool_calls) > 0
  THEN LET toolCall == response.tool_calls[1]
       IN IF toolCall.name \notin allTools
          THEN [kind |-> "final",
                content |-> "Tool execution failed: Cannot read properties of undefined",
                last |-> response.content, call |-> NoCall,
                handled |-> <<toolCall>>]
          ELSE IF ~SchemaOk(toolCall)
          THEN [kind |-> "final",
                content |-> "Tool execution failed: Received tool input did not match expected schema",
                last |-> response.content, call |-> NoCall,
                handled |-> <<toolCall>>]
          ELSE [kind |-> "tool", content |-> "",
                last |-> response.content, call |-> toolCall,
                handled |-> <<toolCall>>]
  ELSE [kind |-> "final",
        content |-> OrElse(response.content, "Task completed successfully."),
        last |-> response.content, call |-> NoCall, handled |-> <<>>]

\* The agent that executes the first tool call itself.
invokeAuto(response) ==
  IF Len(response.tool_calls) > 0
  THEN LET toolCall == response.tool_calls[1]
       IN IF requiresApprovalAuto(toolCall)
          THEN [kind |-> "interrupt", content |-> response.content,
                last |-> response.content, call |-> toolCall,
                handled |-> <<toolCall>>]
          ELSE IF toolCall.name \notin allTools
          THEN [kind |-> "final",
                content |-> "Tool " \o toolCall.name \o " not found.",
                last |-> response.content, call |-> NoCall,
                handled |-> <<toolCall>>]
          ELSE IF ~SchemaOk(toolCall)
          THEN \* tool.invoke throws on the arguments, caught as toolError
               [kind |-> "final",
                content |-> "Tool execution failed: Received tool input did not match expected schema",
                last |-> response.content, call |-> NoCall,
                handled |-> <<toolCall>>]
          ELSE [kind |-> "tool", content |-> "",
                last |-> response.content, call |-> toolCall,
                handled |-> <<toolCall>>]
  ELSE [kind |-> "final",
        content |-> OrElse(response.content, "Task completed successfully."),
        last |-> response.content, call |-> NoCall, handled |-> <<>>]

invoke(response) ==
  IF build = "popup_auto" THEN invokeAuto(response) ELSE invokeGated(response)

\* processAITaskContent that reads a field the result does not have instead
\* of the last message and falls through to the default text
processAITaskContentDefault(result) ==
  IF result.kind = "interrupt"
  THEN OrElse(result.content,
              "I need your approval to proceed with this action. Please check the approval dialog.")
  ELSE "Task completed successfully."

\* content of the object processAITask returns for the agent's result
processAITaskContent(result) ==
  IF result.kind = "interrupt"
  THEN OrElse(result.content,
              "I need your approval to proceed with this action. Please check the approval dialog.")
  ELSE OrElse(result.last, OrElse(result.content, "Task completed successfully."))

\* content of the object handleTaskExecution returns for the agent's result
handleTaskExecutionContent(result) ==
  IF result.kind = "interrupt"
  THEN "This action requires your approval. Please check the popup for details."
  ELSE OrElse(result.last, "Task completed successfully.")

\* modelWithTools.invoke returns response; the rest of agent.invoke and of
\* its caller runs up to the next await.
ModelRespond(i, response) ==
  /\ i \in 1..Len(turns)
  /\ turns[i].phase = "model"
  /\ LET t == turns[i]
         result == invoke(response)
     IN /\ requests' = IF result.kind = "interrupt"
                       THEN Append(requests, NewRequest(t.session, result.call))
                       ELSE requests
        /\ lastInvoke' = [turn |-> t.id, response |-> response,
                          kind |-> result.kind, content |-> result.content,
                          handled |-> result.handled, outcome |-> "none"]
        /\ IF result.kind = "tool"
           THEN \* the tool function awaits chrome.tabs.query
                /\ turns' = [turns EXCEPT ![i].phase = "tool",
                                          ![i].call = result.call,
                                          ![i].content = result.last,
                                          ![i].response = response]
                /\ UNCHANGED <<chatSessions, currentSession, isLoading,
                               pendingApproval, storage>>
           ELSE IF build = "background"
           THEN \* on an interrupt the service worker first sends
                \* HITL_INTERRUPT to the popup, then answers EXECUTE_TASK
                /\ turns' = [turns EXCEPT
                      ![i].phase = IF result.kind = "interrupt" THEN "interrupt"
                                   ELSE "response",
                      ![i].req = IF result.kind = "interrupt" THEN Len(requests) + 1
                                 ELSE 0,
                      ![i].content = handleTaskExecutionContent(result)]
                /\ UNCHANGED <<chatSessions, currentSession, isLoading,
                               pendingApproval, storage>>
           ELSE FinishSubmit(i, processAITaskContent(result),
                             IF result.kind = "interrupt" THEN Len(requests) + 1 ELSE 0)
  /\ UNCHANGED <<build, activeTab, contentVars, secureVars, now, approvals, activeAgents, dispatched, nChat,
                 nDecisions>>

\* modelWithTools.invoke throws (network / auth failure)
ModelFail(i) ==
  /\ i \in 1..Len(turns)
  /\ turns[i].phase = "model"
  /\ IF build = "background"
     THEN /\ turns' = [turns EXCEPT ![i].phase = "response",
                ![i].content = "I encountered an error. Please try again or check your settings."]
          /\ UNCHANGED <<chatSessions, currentSession, isLoading,
                         pendingApproval, storage>>
     ELSE FinishSubmit(i, "AI processing failed: network error", 0)
  /\ UNCHANGED <<build, activeTab, contentVars, secureVars, lastInvoke, now, approvals, activeAgents, requests, dispatched,
                 nChat, nDecisions>>

\* ------------------------------------------------------------- tool transport
\* ids of the tabs of the browser; as the answer of
\* chrome.tabs.query({active, currentWindow}), 0 is no tab
Tabs == {0, 1, 2}

\* the user activates another tab, or leaves the window without one
SwitchTab(tab) ==
  /\ tab # activeTab
  /\ activeTab' = tab
  /\ UNCHANGED <<build, now, chatSessions, currentSession, isLoading,
                 pendingApproval, storage, turns, approvals, activeAgents,
                 requests, dispatched, lastInvoke, nChat, nDecisions,
                 contentVars, secureVars>>

\* tabId || (await chrome.tabs.query({active: true, currentWindow: true}))[0]?.id
\* with active the tab the query finds; undefined and 0 are both falsy
targetTabId(tabId, active) ==
  IF tabId # NoTabId /\ tabId # 0 THEN tabId ELSE active

\* how the await of chrome.tabs.sendMessage ends: the content script's
\* answer {success: true} or {success: false, error}, an undefined answer,
\* or a rejection because the tab has no receiving end
ToolOutcomes == {"success", "failure", "undefined", "rejected"}

\* text contains needle
Contains(text, needle) ==
  \E k \in 1..(Len(text) - Len(needle) + 1) :
    SubSeq(text, k, k + Len(needle) - 1) = needle

\* outcomes of a tool's request that are failures
FailedOutcomes == {"failure", "notab", "rejected", "undefined"}

\* formatError(error) for what sendToContentScript throws, or the TypeError
\* of reading a property of an undefined answer
ErrorMessage(outcome) ==
  CASE outcome = "notab" -> "No active tab found"
    [] outcome = "rejected" -> "Could not establish connection. Receiving end does not exist."
    [] OTHER -> "Cannot read properties of undefined"

\* the string the tool function returns: clickElement and findElements
ToolText(call, outcome) ==
  IF call.name = "click_element"
  THEN CASE outcome = "success" -> "Successfully clicked element: " \o call.args
         [] outcome = "failure" -> "Failed to click element: " \o call.args
         [] OTHER -> "Error clicking element: " \o ErrorMessage(outcome)
  ELSE CASE outcome = "success" ->
              "Found 1 elements matching " \o call.args \o ": [element]"
         [] outcome = "failure" ->
              "Found 0 elements matching " \o call.args \o ": undefined"
         [] OTHER -> "Error finding elements: " \o ErrorMessage(outcome)

\* what agent.invoke returns once the tool function has returned text
ToolReturn(t, text) ==
  [kind |-> "final",
   content |-> "I executed " \o t.call.name \o " and got: " \o text,
   last |-> t.content, call |-> t.call, handled |-> <<t.call>>]

\* history: invoke of turn t returned after its tool ended with outcome
Returned(t, outcome) ==
  LET result == ToolReturn(t, ToolText(t.call, outcome))
  IN [turn |-> t.id, response |-> t.response, kind |-> result.kind,
      content |-> result.content, handled |-> result.handled,
      outcome |-> outcome]

\* sendToContentScript: tab is targetTabId; without a tab it throws, with
\* one it calls chrome.tabs.sendMessage
TabsQuery(i, tab) ==
  /\ i \in 1..Len(turns)
  /\ turns[i].phase = "tool"
  /\ tab = targetTabId(turns[i].call.tabId, activeTab)
  /\ IF tab = 0
     THEN /\ FinishSubmit(i,
               processAITaskContent(ToolReturn(turns[i], ToolText(turns[i].call, "notab"))),
               0)
          /\ lastInvoke' = Returned(turns[i], "notab")
          /\ UNCHANGED dispatched
     ELSE /\ dispatched' = Append(dispatched,
               [turn |-> turns[i].id, session |-> turns[i].session,
                name |-> turns[i].call.name, args |-> turns[i].call.args,
                tab |-> tab, req |-> 0])
          /\ turns' = [turns EXCEPT ![i].phase = "sent"]
          /\ UNCHANGED <<chatSessions, currentSession, isLoading,
                         pendingApproval, storage, lastInvoke>>
  /\ UNCHANGED <<build, activeTab, contentVars, secureVars, now, approvals, activeAgents, requests, nChat,
                 nDecisions>>

\* ToolResult with a tool that sends its request once more after a failure
ToolResultRetry(i, outcome) ==
  /\ i \in 1..Len(turns)
  /\ turns[i].phase = "sent"
  /\ IF /\ outcome \in FailedOutcomes
        /\ Cardinality({k \in 1..Len(dispatched) : dispatched[k].turn = turns[i].id}) < 2
     THEN /\ dispatched' = Append(dispatched,
               [turn |-> turns[i].id, session |-> turns[i].session,
                name |-> turns[i].call.name, args |-> turns[i].call.args,
                tab |-> 1, req |-> 0])
          /\ UNCHANGED <<chatSessions, currentSession, isLoading,
                         pendingApproval, storage, turns, lastInvoke>>
     ELSE /\ FinishSubmit(i,
               processAITaskContent(ToolReturn(turns[i], ToolText(turns[i].call, outcome))),
               0)
          /\ lastInvoke' = Returned(turns[i], outcome)
          /\ UNCHANGED dispatched
  /\ UNCHANGED <<build, activeTab, contentVars, secureVars, now, approvals, activeAgents, requests, nChat,
                 nDecisions>>

\* the await of chrome.tabs.sendMessage ends: the tool function returns its
\* text, agent.invoke returns and handleSubmit continues
ToolResult(i, outcome) ==
  /\ i \in 1..Len(turns)
  /\ turns[i].phase = "sent"
  /\ FinishSubmit(i,
       processAITaskContent(ToolReturn(turns[i], ToolText(turns[i].call, outcome))),
       0)
  /\ lastInvoke' = Returned(turns[i], outcome)
  /\ UNCHANGED <<build, activeTab, contentVars, secureVars, now, approvals, activeAgents, requests, dispatched,
                 nChat, nDecisions>>

\* the time the caller allows for a result (userPreferences.timeout) runs
\* out while sendMessage is still awaited: no timer is armed, nothing runs
DeadlinePasses(i) ==
  /\ i \in 1..Len(turns)
  /\ turns[i].phase = "sent"
  /\ ~turns[i].late
  /\ turns' = [turns EXCEPT ![i].late = TRUE]
  /\ UNCHANGED <<build, activeTab, contentVars, secureVars, lastInvoke, now, chatSessions, currentSession, isLoading,
                 pendingApproval, storage, approvals, activeAgents, requests,
                 dispatched, nChat, nDecisions>>

\* popup's runtime.onMessage listener receives HITL_INTERRUPT
handleMessage(i) ==
  /\ i \in 1..Len(turns)
  /\ turns[i].phase = "interrupt"
  /\ pendingApproval' = [sessionId |-> turns[i].session, req |-> turns[i].req,
                         interrupt |-> requests[turns[i].req].call]
  /\ turns' = [turns EXCEPT ![i].phase = "response"]
  /\ UNCHANGED <<build, activeTab, contentVars, secureVars, lastInvoke, now, chatSessions, currentSession, isLoading, storage,
                 approvals, activeAgents, requests, dispatched, nChat, nDecisions>>

\* the EXECUTE_TASK response reaches the popup: handleSubmit continues
TaskResponse(i) ==
  /\ i \in 1..Len(turns)
  /\ turns[i].phase = "response"
  /\ FinishSubmit(i, turns[i].content, 0)
  /\ UNCHANGED <<build, activeTab, contentVars, secureVars, lastInvoke, now, approvals, activeAgents, requests, dispatched,
                 nChat, nDecisions>>

\* ------------------------------------------------------------- approval
Decisions == {"approve", "reject", "edit"}

\* editedArgs of handleApproval; "" stands for an omitted argument
EditedArgs == CallArgs \cup {""}

\* The synchronous part of handleApproval: sends APPROVE_HITL.
handleApproval(decision, editedArgs) ==
  /\ nChat + nDecisions < MaxEvents
  /\ pendingApproval # NoApproval
  /\ decision # "edit" => editedArgs = ""
  /\ approvals' = Append(approvals,
       [sessionId |-> pendingApproval.sessionId,
        req |-> pendingApproval.req,
        type |-> decision,
        args |-> IF decision = "edit" THEN editedArgs ELSE "",
        currentSession |-> currentSession,
        chatSessions |-> chatSessions,
        phase |-> "sent",
        content |-> ""])
  /\ requests' = [requests EXCEPT ![pendingApproval.req].sent = @ + 1]
  /\ nDecisions' = nDecisions + 1
  /\ UNCHANGED <<build, activeTab, contentVars, secureVars, lastInvoke, now, chatSessions, currentSession, isLoading,
                 pendingApproval, storage, turns, activeAgents, dispatched,
                 nChat>>

\* content of the answer to decisions[0]
DecisionContent(type) ==
  CASE type = "approve" -> "Action approved and executed successfully."
    [] type = "reject" -> "Action was rejected by user."
    [] type = "edit" -> "Action was modified and executed successfully."
    [] OTHER -> "Action completed successfully."

\* the service worker that owns the agents refuses a decision for a session
\* it holds no agent for
NoActiveAgent(sessionId) ==
  build = "background" /\ sessionId \notin activeAgents

\* handleHITLResponse of the service worker receives APPROVE_HITL
handleHITLResponse(j) ==
  /\ j \in 1..Len(approvals)
  /\ approvals[j].phase = "sent"
  /\ LET a == approvals[j]
         noAgent == NoActiveAgent(a.sessionId)
     IN /\ approvals' = [approvals EXCEPT ![j].phase = "response",
              ![j].content =
                 IF noAgent
                 THEN "Failed to process your decision: No active agent found for session"
                 ELSE DecisionContent(a.type)]
        /\ requests' = [requests EXCEPT ![a.req].decision =
              IF noAgent \/ @ # "pending" THEN @ ELSE a.type]
  /\ UNCHANGED <<build, activeTab, contentVars, secureVars, lastInvoke, now, chatSessions, currentSession, isLoading,
                 pendingApproval, storage, turns, activeAgents, dispatched,
                 nChat, nDecisions>>

\* the APPROVE_HITL response reaches the popup: handleApproval continues
ApprovalResponse(j) ==
  /\ j \in 1..Len(approvals)
  /\ approvals[j].phase = "response"
  /\ LET a == approvals[j]
         aiMessage == Message("ai", a.content)
         updatedMessages == Append(a.currentSession.messages, aiMessage)
         updatedSession == [a.currentSession EXCEPT !.messages = updatedMessages]
         updatedSessions == MapReplace(a.chatSessions, a.currentSession.id, updatedSession)
     IN /\ IF a.currentSession # NoSession /\ a.content # ""
           THEN /\ currentSession' = updatedSession
                /\ chatSessions' = updatedSessions
                /\ storage' = saveToStorage(updatedSessions, a.currentSession.id, a.currentSession)
           ELSE UNCHANGED <<currentSession, chatSessions, storage>>
        /\ pendingApproval' = NoApproval
        /\ requests' = [requests EXCEPT ![a.req].resolved = @ + 1]
        /\ approvals' = RemoveAt(approvals, j)
  /\ UNCHANGED <<build, activeTab, contentVars, secureVars, lastInvoke, now, isLoading, turns, activeAgents, dispatched,
                 nChat, nDecisions>>

\* ------------------------------------------------------------- clean-up
\* the service worker's setInterval callback: every entry of activeAgents is
\* deleted when Math.random() < 0.1, so any subset may go, the empty one
\* included
CleanUp(removed) ==
  /\ build = "background"
  /\ activeAgents # {}
  /\ removed \subseteq activeAgents
  /\ activeAgents' = activeAgents \ removed
  /\ UNCHANGED <<build, activeTab, contentVars, secureVars, lastInvoke, now, chatSessions, currentSession, isLoading,
                 pendingApproval, storage, turns, approvals, requests,
                 dispatched, nChat, nDecisions>>

\* ------------------------------------------------------------- content script
\* selectors a message may carry: the last one is not a valid selector, so
\* document.querySelector throws a SyntaxError for it
Selectors == {"#a", "#b", "a["}

ValidSelector(selector) == selector # "a["

\* message types sent by the tools; the last one is sent by no tool
MessageTypes ==
  {"FIND_ELEMENTS", "CLICK_ELEMENT", "INPUT_TEXT", "HOVER_ELEMENT",
   "EXTRACT_TEXT", "SCROLL_PAGE", "WAIT_FOR_ELEMENT", "PING"}

\* the message types whose handler acts on document.querySelector(selector)
SelectorActions ==
  {"CLICK_ELEMENT", "INPUT_TEXT", "HOVER_ELEMENT", "EXTRACT_TEXT"}

Success == [success |-> TRUE, error |-> ""]
Failure(error) == [success |-> FALSE, error |-> error]

\* what one run of a listener does: the arguments of its sendResponse
\* calls, and whether it ended by throwing
Ran(answers, threw) == [answers |-> answers, threw |-> threw]

\* src/content/content.ts: the handlers return nothing and the listener
\* answers {success: true} after them; types it does not know get no answer
onMessageOld(type, selector, elements) ==
  CASE type \in {"CLICK_ELEMENT", "INPUT_TEXT"} ->
         IF ValidSelector(selector) THEN Ran(<<Success>>, FALSE)
         ELSE Ran(<<>>, TRUE)
    [] type = "SCROLL_PAGE" -> Ran(<<Success>>, FALSE)
    [] OTHER -> Ran(<<>>, FALSE)

\* the later content script: every handler returns its answer, wrapped in
\* try / catch, and the listener sends it
onMessageNew(type, selector, elements) ==
  CASE type = "FIND_ELEMENTS" ->
         IF ValidSelector(selector) THEN Ran(<<Success>>, FALSE)
         ELSE Ran(<<Failure("SyntaxError")>>, FALSE)
    [] type \in SelectorActions ->
         IF ~ValidSelector(selector) THEN Ran(<<Failure("SyntaxError")>>, FALSE)
         ELSE IF selector \in elements THEN Ran(<<Success>>, FALSE)
         ELSE Ran(<<Failure(IF type = "INPUT_TEXT" THEN "Input element not found"
                            ELSE "Element not found")>>, FALSE)
    [] type = "SCROLL_PAGE" -> Ran(<<Success>>, FALSE)
    [] type = "WAIT_FOR_ELEMENT" ->
         \* the answer is sent later, when the promise settles
         Ran(<<>>, FALSE)
    [] OTHER -> Ran(<<Failure("Unknown message type")>>, FALSE)

\* the promise of waitForElement settles with answer unless it has settled
\* before; the listener's then / catch sends what it settled with
Settle(w, answer) ==
  [w EXCEPT !.answers = IF @ = <<>> THEN <<answer>> ELSE @]

\* waitForElement(selector, timeout) up to the return of the promise's
\* executor: an invalid selector makes querySelector throw, which rejects
\* the promise; an element that is there resolves it; otherwise the
\* observer is connected and the timer armed
waitForElement(selector, elements) ==
  IF ~ValidSelector(selector)
  THEN Settle([NoWait EXCEPT !.selector = selector], Failure("SyntaxError"))
  ELSE IF selector \in elements
  THEN Settle([NoWait EXCEPT !.selector = selector, !.resolves = 1,
                             !.appeared = TRUE], Success)
  ELSE [NoWait EXCEPT !.selector = selector, !.observing = TRUE, !.timer = TRUE]

\* the MutationObserver's callback, run after a mutation it observes
ObserverCallback(w, elements) ==
  IF w.observing /\ w.selector \in elements
  THEN Settle([w EXCEPT !.observing = FALSE, !.resolves = @ + 1], Success)
  ELSE w

\* history: the selector of a wait whose timer has not run matches
Seen(w, elements) ==
  [w EXCEPT !.appeared = @ \/ (w.timer /\ w.selector \in elements)]

\* chrome.runtime.onMessage listener of the content script receives a message
\* (a WAIT_FOR_ELEMENT message is taken up when the timer of the wait
\* before it has run)
onMessage(type, selector) ==
  /\ LET ran == IF script = "content.ts" THEN onMessageOld(type, selector, page)
                ELSE onMessageNew(type, selector, page)
     IN listener' = [type |-> type, selector |-> selector,
                     answers |-> ran.answers, threw |-> ran.threw]
  /\ IF script = "background.ts" /\ type = "WAIT_FOR_ELEMENT"
     THEN /\ ~wait.timer
          /\ wait' = waitForElement(selector, page)
     ELSE wait' = wait
  /\ UNCHANGED <<sessionVars, secureVars, script, page>>

\* the document changes by a node that is inserted or removed (a childList
\* mutation): an element matching selector appears or goes, and the
\* observer's callback runs
PageChanges(selector) ==
  /\ ValidSelector(selector)
  /\ page' = IF selector \in page THEN page \ {selector} ELSE page \cup {selector}
  /\ wait' = ObserverCallback(Seen(wait, page'), page')
  /\ UNCHANGED <<sessionVars, secureVars, script, listener>>

\* the document changes by an attribute (id, class, ...) of a node that
\* stays: an element begins or ceases to match selector; the observer,
\* which observes childList and subtree only, is not told
AttributeChanges(selector) ==
  /\ ValidSelector(selector)
  /\ page' = IF selector \in page THEN page \ {selector} ELSE page \cup {selector}
  /\ wait' = Seen(wait, page')
  /\ UNCHANGED <<sessionVars, secureVars, script, listener>>

\* the setTimeout callback of waitForElement runs: it disconnects the
\* observer and calls resolve with the failure
TimerFires ==
  /\ wait.timer
  /\ wait' = Settle([wait EXCEPT !.timer = FALSE, !.observing = FALSE,
                                 !.resolves = @ + 1],
                    Failure("Element did not appear within timeout"))
  /\ UNCHANGED <<sessionVars, secureVars, script, page, listener>>

\* ------------------------------------------------------------- specifications
\* what the user can do in the popup, whatever the revision
PopupEvents ==
  \/ \E time \in ClockReads : createNewSession(time)
  \/ \E i \in 1..MaxSessions : selectSession(i)
  \/ \E i \in 1..MaxSessions : deleteSession(i)
  \/ \E input \in Inputs, via \in {"button", "enter"}, time \in ClockReads :
       handleSubmit(input, via, time)

ApprovalEvents ==
  \/ \E decision \in Decisions, editedArgs \in EditedArgs : handleApproval(decision, editedArgs)
  \/ \E j \in 1..MaxEvents : handleHITLResponse(j)
  \/ \E j \in 1..MaxEvents : ApprovalResponse(j)

\* the revision at the head of the repository: processAITask in the popup,
\* agent.invoke executes the first tool call without asking
\* (runs in which the active tab stays the same; SpecTurn below has the
\* tab switches)
Init == InitBuild("popup_auto")

Next ==
  \/ PopupEvents
  \/ \E i \in 1..MaxChatEvents, response \in ModelResponses : ModelRespond(i, response)
  \/ \E i \in 1..MaxChatEvents : ModelFail(i)
  \/ \E i \in 1..MaxChatEvents, tab \in Tabs : TabsQuery(i, tab)
  \/ \E i \in 1..MaxChatEvents, outcome \in ToolOutcomes : ToolResult(i, outcome)
  \/ \E i \in 1..MaxChatEvents : DeadlinePasses(i)

Spec == Init /\ [][Next]_vars

\* processAITask in the popup, agent.invoke interrupts on sensitive tools
InitGated == InitBuild("popup_gated")

NextGated ==
  \/ PopupEvents
  \/ \E i \in 1..MaxChatEvents, response \in ModelResponses : ModelRespond(i, response)
  \/ \E i \in 1..MaxChatEvents : ModelFail(i)
  \/ ApprovalEvents

SpecGated == InitGated /\ [][NextGated]_vars

\* the agents live in the service worker, the popup sends EXECUTE_TASK
InitBackground == InitBuild("background")

NextBackground ==
  \/ PopupEvents
  \/ \E i \in 1..MaxChatEvents, hasApiKey \in BOOLEAN : handleTaskExecution(i, hasApiKey)
  \/ \E i \in 1..MaxChatEvents, response \in ModelResponses : ModelRespond(i, response)
  \/ \E i \in 1..MaxChatEvents : ModelFail(i)
  \/ \E i \in 1..MaxChatEvents : handleMessage(i)
  \/ \E i \in 1..MaxChatEvents : TaskResponse(i)
  \/ ApprovalEvents
  \/ \E removed \in SUBSET (1..MaxClock) : CleanUp(removed)

SpecBackground == InitBackground /\ [][NextBackground]_vars

\* the turns of the agent at the head of the repository, without the
\* session operations of the popup
SubmitTurn(input, via, time) ==
  /\ nChat < MaxTurns
  /\ handleSubmit(input, via, time)

\* a tab switch that a tool can observe: activeTab is read by the query of
\* a tool only, so the switches before it count as one
SwitchTabTurn(tab) ==
  /\ \E i \in 1..Len(turns) : turns[i].phase = "tool"
  /\ SwitchTab(tab)

NextTurn ==
  \/ \E input \in Inputs, via \in {"button", "enter"}, time \in ClockReads :
       SubmitTurn(input, via, time)
  \/ \E i \in 1..MaxChatEvents, response \in ModelResponses : ModelRespond(i, response)
  \/ \E i \in 1..MaxChatEvents : ModelFail(i)
  \/ \E tab \in Tabs : SwitchTabTurn(tab)
  \/ \E i \in 1..MaxChatEvents, tab \in Tabs : TabsQuery(i, tab)
  \/ \E i \in 1..MaxChatEvents, outcome \in ToolOutcomes : ToolResult(i, outcome)
  \/ \E i \in 1..MaxChatEvents : DeadlinePasses(i)

SpecTurn == Init /\ [][NextTurn]_vars

\* the execution context alone: a tab, in which either revision of the
\* content script may run, and the messages sent to it
InitContent == \E contentScript \in ContentScripts : InitState("popup_auto", contentScript)

NextContent ==
  \/ \E type \in MessageTypes, selector \in Selectors : onMessage(type, selector)
  \/ \E selector \in Selectors : PageChanges(selector)
  \/ \E selector \in Selectors : AttributeChanges(selector)
  \/ TimerFires

SpecContent == InitContent /\ [][NextContent]_vars

\* ------------------------------------------------------------- SecureStorage
\* SecureStorage keeps, in chrome.storage.local, one AES-GCM key
\* (extension_key) and, in secure_settings, one encrypted API key per
\* provider.  Each await of a storage call is a step of its own, so that
\* calls that overlap interleave at their awaits.
MaxCalls == 3
MaxOverlap == 2

\* API keys the user may enter: empty, blank, 9 and 10 characters between
\* blanks, and a longer one
ApiKeys == {"", "  ", " 123456789 ", " 1234567890 ", "sk-ant-000002"}

\* String.prototype.trim
RECURSIVE trim(_)
trim(s) ==
  IF Len(s) > 0 /\ SubSeq(s, 1, 1) = " " THEN trim(SubSeq(s, 2, Len(s)))
  ELSE IF Len(s) > 0 /\ SubSeq(s, Len(s), Len(s)) = " "
  THEN trim(SubSeq(s, 1, Len(s) - 1))
  ELSE s

\* crypto.subtle.encrypt with AES-GCM: the ciphertext can be opened with the
\* key it was made with and with no other
encrypt(data, key) == [key |-> key, text |-> data]

\* crypto.subtle.decrypt: the plaintext, or Null where the code throws
\* 'Data decryption failed'
decrypt(entry, key) == IF entry.key = key THEN <<entry.text>> ELSE Null

\* a call of a SecureStorage method, with the locals it keeps across awaits
Op(name, task, provider, apiKey, pc) ==
  [call |-> nCalls + 1, op |-> name, task |-> task, provider |-> provider,
   apiKey |-> apiKey, pc |-> pc, key |-> 0, entry |-> NoEntry,
   settings |-> NoLocal.secure_settings, value |-> Null,
   before |-> local, solo |-> (ops = <<>>)]

\* a call may start when no other is in flight or, where calls may overlap,
\* when fewer than MaxOverlap are
CanCall(concurrent) ==
  /\ nCalls < MaxCalls
  /\ IF concurrent THEN Len(ops) < MaxOverlap ELSE ops = <<>>

\* the calls in flight when another call starts did not run alone
Start(o) == Append([i \in 1..Len(ops) |-> [ops[i] EXCEPT !.solo = FALSE]], o)

Outcome(o, error) ==
  [call |-> o.call, op |-> o.op, provider |-> o.provider, apiKey |-> o.apiKey,
   value |-> o.value, error |-> error, before |-> o.before, solo |-> o.solo]

\* storeApiKey without the length check
storeApiKeyUnchecked(provider, apiKey, concurrent) ==
  /\ CanCall(concurrent)
  /\ nCalls' = nCalls + 1
  /\ IF apiKey = "" \/ trim(apiKey) = ""
     THEN /\ ops' = Start(Op("storeApiKey", "remove", provider, apiKey, "settings_get"))
          /\ returned' = returned
     ELSE /\ ops' = Start(Op("storeApiKey", "store", provider, apiKey, "key_get"))
          /\ returned' = returned
  /\ UNCHANGED <<sessionVars, contentVars, local, nKeys, intended>>

\* storeApiKey up to its first await: an empty or blank key turns the call
\* into removeApiKey, a short one throws, any other goes on to encrypt
storeApiKey(provider, apiKey, concurrent) ==
  /\ CanCall(concurrent)
  /\ nCalls' = nCalls + 1
  /\ IF apiKey = "" \/ trim(apiKey) = ""
     THEN /\ ops' = Start(Op("storeApiKey", "remove", provider, apiKey, "settings_get"))
          /\ returned' = returned
     ELSE IF Len(trim(apiKey)) < 10
     THEN /\ ops' = ops
          /\ returned' = Outcome(Op("storeApiKey", "store", provider, apiKey, "return"),
                                 "API key appears too short")
     ELSE /\ ops' = Start(Op("storeApiKey", "store", provider, apiKey, "key_get"))
          /\ returned' = returned
  /\ UNCHANGED <<sessionVars, contentVars, local, nKeys, intended>>

getApiKey(provider, concurrent) ==
  /\ CanCall(concurrent)
  /\ nCalls' = nCalls + 1
  /\ ops' = Start(Op("getApiKey", "get", provider, "", "settings_get"))
  /\ UNCHANGED <<sessionVars, contentVars, local, nKeys, intended, returned>>

removeApiKey(provider, concurrent) ==
  /\ CanCall(concurrent)
  /\ nCalls' = nCalls + 1
  /\ ops' = Start(Op("removeApiKey", "remove", provider, "", "settings_get"))
  /\ UNCHANGED <<sessionVars, contentVars, local, nKeys, intended, returned>>

\* hasApiKey has one await, the read of secure_settings
hasApiKey(provider, concurrent) ==
  /\ CanCall(concurrent)
  /\ nCalls' = nCalls + 1
  /\ ops' = Start([Op("hasApiKey", "has", provider, "", "return")
                     EXCEPT !.value = local.secure_settings[provider] # NoEntry])
  /\ UNCHANGED <<sessionVars, contentVars, local, nKeys, intended, returned>>

\* clearAll has one await, the removal of both entries; it is called while
\* no other call is in flight
clearAll ==
  /\ nCalls < MaxCalls
  /\ ops = <<>>
  /\ nCalls' = nCalls + 1
  /\ local' = NoLocal
  /\ intended' = [provider \in Providers |-> Null]
  /\ returned' = Outcome(Op("clearAll", "clear", "", "", "return"), "")
  /\ UNCHANGED <<sessionVars, contentVars, ops, nKeys>>

\* what the caller of getEncryptionKey does once it holds the key:
\* storeApiKey encrypts the trimmed key and goes on to read secure_settings,
\* getApiKey decrypts the entry it read and returns
Resume(o, key) ==
  IF o.task = "store"
  THEN [o EXCEPT !.key = key, !.entry = encrypt(trim(o.apiKey), key),
                 !.pc = "settings_get"]
  ELSE LET decrypted == decrypt(o.entry, key)
       IN IF decrypted = Null
          THEN [o EXCEPT !.key = key, !.value = Null, !.pc = "return"]
          ELSE IF trim(decrypted[1]) = ""
          THEN [o EXCEPT !.key = key, !.value = Null, !.task = "remove",
                         !.pc = "settings_get"]
          ELSE [o EXCEPT !.key = key, !.value = <<trim(decrypted[1])>>,
                         !.pc = "return"]

\* getEncryptionKey: the read of extension_key; the stored key is imported,
\* or a new one is generated, to be stored at the next await
getEncryptionKey(i) ==
  /\ ops[i].pc = "key_get"
  /\ IF local.extension_key # 0
     THEN /\ ops' = [ops EXCEPT ![i] = Resume(@, local.extension_key)]
          /\ nKeys' = nKeys
     ELSE /\ nKeys' = nKeys + 1
          /\ ops' = [ops EXCEPT ![i] = [@ EXCEPT !.key = nKeys + 1, !.pc = "key_set"]]
  /\ UNCHANGED <<sessionVars, contentVars, local, nCalls, intended, returned>>

\* getEncryptionKey: chrome.storage.local.set({extension_key: ...})
setEncryptionKey(i) ==
  /\ ops[i].pc = "key_set"
  /\ local' = [local EXCEPT !.extension_key = ops[i].key]
  /\ ops' = [ops EXCEPT ![i] = Resume(@, @.key)]
  /\ UNCHANGED <<sessionVars, contentVars, nKeys, nCalls, intended, returned>>

\* chrome.storage.local.get(['secure_settings']): storeApiKey and
\* removeApiKey keep the object to change it, getApiKey looks up the entry
getSettings(i) ==
  /\ ops[i].pc = "settings_get"
  /\ LET o == ops[i]
         entry == local.secure_settings[o.provider]
     IN ops' = [ops EXCEPT ![i] =
                  IF o.task = "get"
                  THEN (IF entry = NoEntry
                        THEN [o EXCEPT !.value = Null, !.pc = "return"]
                        ELSE [o EXCEPT !.entry = entry, !.pc = "key_get"])
                  ELSE [o EXCEPT !.settings = local.secure_settings,
                                 !.pc = "settings_set"]]
  /\ UNCHANGED <<sessionVars, contentVars, local, nKeys, nCalls, intended, returned>>

\* chrome.storage.local.set({secure_settings: secureSettings}) with the
\* object read before, the provider's entry set or deleted
setSettings(i) ==
  /\ ops[i].pc = "settings_set"
  /\ LET o == ops[i]
     IN /\ local' = [local EXCEPT !.secure_settings =
                       [o.settings EXCEPT ![o.provider] =
                          IF o.task = "store" THEN o.entry ELSE NoEntry]]
        /\ intended' = [intended EXCEPT ![o.provider] =
                          IF o.task = "store" THEN <<trim(o.apiKey)>> ELSE Null]
        /\ ops' = [ops EXCEPT ![i] = [o EXCEPT !.pc = "return"]]
  /\ UNCHANGED <<sessionVars, contentVars, nKeys, nCalls, returned>>

\* the promise of the call settles
Return(i) ==
  /\ ops[i].pc = "return"
  /\ returned' = Outcome(ops[i], "")
  /\ ops' = RemoveAt(ops, i)
  /\ UNCHANGED <<sessionVars, contentVars, local, nKeys, nCalls, intended>>

SecureCalls(concurrent) ==
  \/ \E provider \in Providers, apiKey \in ApiKeys :
       storeApiKey(provider, apiKey, concurrent)
  \/ \E provider \in Providers : getApiKey(provider, concurrent)
  \/ \E provider \in Providers : removeApiKey(provider, concurrent)
  \/ \E provider \in Providers : hasApiKey(provider, concurrent)
  \/ clearAll

SecureSteps ==
  \E i \in 1..Len(ops) :
    \/ getEncryptionKey(i)
    \/ setEncryptionKey(i)
    \/ getSettings(i)
    \/ setSettings(i)
    \/ Return(i)

\* SecureStorage with every call awaited before the next is made
NextSecureStorage == SecureCalls(FALSE) \/ SecureSteps

SpecSecureStorage == Init /\ [][NextSecureStorage]_vars

\* SecureStorage with calls that may overlap
NextOverlap == SecureCalls(TRUE) \/ SecureSteps

SpecOverlap == Init /\ [][NextOverlap]_vars

\* ------------------------------------------------------------- properties
\* C1: a sensitive tool is dispatched to the execution context only for a
\* call that has an approval request whose decision was approve or edit; a
\* rejected or undecided call is never dispatched.
C1_SensitiveDispatchNeedsDecision ==
  \A k \in 1..Len(dispatched) :
    dispatched[k].name \in sensitiveTools =>
      /\ dispatched[k].req # 0
      /\ requests[dispatched[k].req].decision \in {"approve", "edit"}

\* C2: once the popup has handled the answer to an approve decision, the
\* gated tool call has been dispatched with its original arguments.
C2_ApproveDispatchesOriginal ==
  \A r \in 1..Len(requests) :
    (requests[r].decision = "approve" /\ requests[r].resolved > 0) =>
      \E k \in 1..Len(dispatched) :
        /\ dispatched[k].req = r
        /\ dispatched[k].name = requests[r].call.name
        /\ dispatched[k].args = requests[r].call.args

\* C3: when the answer to a reject decision is handled, the decline message
\* is the last message of the conversation of the approval's session and a
\* model call for that session is started with the refusal in its context.
C3_RejectFoldsAndContinues ==
  [][\A j \in 1..Len(approvals) :
       (/\ approvals[j].phase = "response"
        /\ approvals[j].type = "reject"
        /\ approvals' = RemoveAt(approvals, j)) =>
         LET declined == Message("ai", "Action was rejected by user.")
             sid == approvals[j].sessionId
         IN /\ \E n \in 1..Len(chatSessions') :
                 /\ chatSessions'[n].id = sid
                 /\ Len(chatSessions'[n].messages) > 0
                 /\ chatSessions'[n].messages[Len(chatSessions'[n].messages)] = declined
            /\ \E i \in 1..Len(turns') :
                 /\ turns'[i].session = sid
                 /\ turns'[i].phase = "model"
                 /\ \E m \in 1..Len(turns'[i].updatedMessages) :
                      turns'[i].updatedMessages[m] = declined]_vars

\* C4: when the answer to an edit decision with arguments that violate the
\* schema is handled, the answer is a SchemaError, the approval stays
\* pending and nothing is dispatched.
C4_InvalidEditStaysPending ==
  [][\A j \in 1..Len(approvals) :
       (/\ approvals[j].phase = "response"
        /\ approvals[j].type = "edit"
        /\ approvals[j].args = "none"
        /\ approvals' = RemoveAt(approvals, j)) =>
         /\ approvals[j].content = "SchemaError"
         /\ pendingApproval' = pendingApproval
         /\ pendingApproval' # NoApproval
         /\ dispatched' = dispatched]_vars

\* C5: every session has at most one approval request that has been raised
\* and not yet resolved.
C5_OneOutstandingApproval ==
  \A sid \in 1..MaxClock :
    Cardinality({r \in 1..Len(requests) :
                   requests[r].sessionId = sid /\ requests[r].resolved = 0}) <= 1

\* C6: for each approval request at most one decision is sent and at most
\* one answer is folded.
C6_DecisionResolvesOnce ==
  \A r \in 1..Len(requests) :
    requests[r].sent <= 1 /\ requests[r].resolved <= 1

\* C7: while an approval of a session stays pending and no decision has been
\* invoked for it, the conversation of that session does not change and no
\* turn is started for it.
C7_PendingBlocksConversation ==
  [][(/\ pendingApproval # NoApproval
      /\ pendingApproval' = pendingApproval
      /\ requests'[pendingApproval.req].sent = 0) =>
       LET sid == pendingApproval.sessionId
           TurnsOf(ts) == Cardinality({i \in 1..Len(ts) : ts[i].session = sid})
           Held(sessions) == {n \in 1..Len(sessions) : sessions[n].id = sid}
       IN /\ (Cardinality(Held(chatSessions)) = 1 /\ Cardinality(Held(chatSessions')) = 1) =>
               \A n \in Held(chatSessions), m \in Held(chatSessions') :
                 chatSessions'[m].messages = chatSessions[n].messages
          /\ TurnsOf(turns') <= TurnsOf(turns)]_vars

\* C8: the conversation of a session only grows: what a session holds before
\* a step is a prefix of what it holds after it, in memory and in storage
\* (sessions are told apart by id; ids held by two sessions are left out).
C8_ConversationAppendOnly ==
  [][LET Held(sessions, sid) == {n \in 1..Len(sessions) : sessions[n].id = sid}
         IsPrefix(a, b) == Len(a) <= Len(b) /\ \A i \in 1..Len(a) : a[i] = b[i]
         Grows(before, after) ==
           \A sid \in 1..MaxClock :
             (Cardinality(Held(before, sid)) = 1 /\ Cardinality(Held(after, sid)) = 1) =>
               \A n \in Held(before, sid), m \in Held(after, sid) :
                 IsPrefix(before[n].messages, after[m].messages)
     IN /\ Grows(chatSessions, chatSessions')
        /\ Grows(storage.chatSessions, storage'.chatSessions)]_vars

\* C9: at most one turn is in flight for a session at any time.
C9_OneTurnPerSession ==
  \A sid \in 1..MaxClock :
    Cardinality({i \in 1..Len(turns) : turns[i].session = sid}) <= 1

\* C10: the step that completes a turn of one session leaves every other
\* session as it was, in the session list and in storage.
C10_SessionsIndependent ==
  [][\A i \in 1..Len(turns) :
       (turns' = RemoveAt(turns, i)) =>
         /\ \A n \in 1..Len(chatSessions) :
              chatSessions[n].id # turns[i].session =>
                \E m \in 1..Len(chatSessions') : chatSessions'[m] = chatSessions[n]
         /\ \A n \in 1..Len(storage.chatSessions) :
              storage.chatSessions[n].id # turns[i].session =>
                \E m \in 1..Len(storage'.chatSessions) :
                  storage'.chatSessions[m] = storage.chatSessions[n]]_vars

\* C11: once agent.invoke has returned for a model response, it has taken
\* up every tool call of that response, in the order the model emitted
\* them: none is skipped.
C11_AllToolCallsProcessed ==
  (/\ lastInvoke.kind # "none"
   /\ \A i \in 1..Len(turns) : turns[i].id # lastInvoke.turn) =>
    lastInvoke.handled = lastInvoke.response.tool_calls

\* C12: a turn hands content back to handleSubmit only when the latest
\* model response of the turn holds no tool calls (after tool calls the
\* model is called again).
C12_FinalOnlyWithoutToolCalls ==
  [][\A i \in 1..Len(turns) :
       (turns' = RemoveAt(turns, i) /\ lastInvoke'.turn = turns[i].id) =>
         lastInvoke'.response.tool_calls = <<>>]_vars

\* C13: a tool call that ended in a failure of the execution context
\* (success = false, no active tab, rejected sendMessage, undefined answer)
\* has completed with a text result that carries error text.
C13_FailureYieldsErrorText ==
  lastInvoke.outcome \in FailedOutcomes =>
    \/ Contains(lastInvoke.content, "Error")
    \/ Contains(lastInvoke.content, "Failed")

\* C14: when the request of a tool finds no reachable execution context (no
\* active tab, or no content script in the tab), the turn ends at once and
\* its error text is the content of the message folded into the
\* conversation.
C14_UnreachableFoldsError ==
  [][\A i \in 1..Len(turns) :
       (/\ turns' = RemoveAt(turns, i)
        /\ lastInvoke'.turn = turns[i].id
        /\ lastInvoke'.outcome \in {"notab", "rejected"}) =>
         LET messages == currentSession'.messages
         IN /\ currentSession'.id = turns[i].session
            /\ Len(messages) > 0
            /\ Contains(messages[Len(messages)].content,
                        ErrorMessage(lastInvoke'.outcome))]_vars

\* C15: no request to the execution context is still awaited once the time
\* the caller allows for it has run out (it has completed with Timeout).
C15_TimeoutAtDeadline ==
  \A i \in 1..Len(turns) : ~(turns[i].phase = "sent" /\ turns[i].late)

C18_SchemaErrorFoldedNoDispatch ==
  [][\A i \in 1..Len(turns) :
       (/\ turns[i].phase = "model"
        /\ lastInvoke' # lastInvoke
        /\ lastInvoke'.turn = turns[i].id
        /\ Len(lastInvoke'.response.tool_calls) > 0
        /\ lastInvoke'.response.tool_calls[1].name \in allTools
        /\ ~SchemaOk(lastInvoke'.response.tool_calls[1])) =>
         LET messages == currentSession'.messages
         IN /\ dispatched' = dispatched
            /\ turns' = RemoveAt(turns, i)
            /\ Len(messages) > 0
            /\ Contains(messages[Len(messages)].content, "schema")]_vars

\* C19: the step that surfaces a failed model call keeps every message that
\* was stored when the turn began and leaves the user message of the turn,
\* followed by the failure message, in storage; and the user message of a
\* failed turn that is stored stays stored as long as its session is
\* (sessions are told apart by id; ids held by two sessions are left out).
C19_ModelFailureKeepsStorage ==
  [][LET IsPrefix(a, b) == Len(a) <= Len(b) /\ \A k \in 1..Len(a) : a[k] = b[k]
         Held(sessions, sid) == {n \in 1..Len(sessions) : sessions[n].id = sid}
         IsFailure(m) == m.type = "ai" /\ Contains(m.content, "AI processing failed")
     IN /\ \A i \in 1..Len(turns) :
             (/\ turns[i].phase = "model"
              /\ turns' = RemoveAt(turns, i)
              /\ lastInvoke' = lastInvoke) =>
               /\ \A n \in 1..Len(turns[i].stored) :
                    \E m \in 1..Len(storage'.chatSessions) :
                      /\ storage'.chatSessions[m].id = turns[i].stored[n].id
                      /\ IsPrefix(turns[i].stored[n].messages,
                                  storage'.chatSessions[m].messages)
               /\ \E m \in 1..Len(storage'.chatSessions) :
                    LET messages == storage'.chatSessions[m].messages
                    IN /\ storage'.chatSessions[m].id = turns[i].session
                       /\ IsPrefix(turns[i].updatedMessages, messages)
                       /\ Len(messages) = Len(turns[i].updatedMessages) + 1
                       /\ IsFailure(messages[Len(messages)])
        /\ \A sid \in 1..MaxClock :
             (/\ Cardinality(Held(storage.chatSessions, sid)) = 1
              /\ Cardinality(Held(storage'.chatSessions, sid)) = 1) =>
               \A n \in Held(storage.chatSessions, sid),
                  m \in Held(storage'.chatSessions, sid) :
                 LET before == storage.chatSessions[n].messages
                     after == storage'.chatSessions[m].messages
                 IN \A k \in 2..Len(before) :
                      IsFailure(before[k]) =>
                        /\ Len(after) >= k - 1
                        /\ after[k - 1] = before[k - 1]]_vars

\* C20: the step that surfaces a failed model call appends exactly one
\* message, with content, to the conversation the session holds, and
\* clears the loading flag so that the next submit is accepted.
C20_FailedTurnOneMessageUsable ==
  [][\A i \in 1..Len(turns) :
       (/\ turns[i].phase = "model"
        /\ turns' = RemoveAt(turns, i)
        /\ lastInvoke' = lastInvoke) =>
         LET Held(sessions) == {n \in 1..Len(sessions) : sessions[n].id = turns[i].session}
         IN /\ ~isLoading'
            /\ (Cardinality(Held(chatSessions)) = 1 /\ Cardinality(Held(chatSessions')) = 1) =>
                 \A n \in Held(chatSessions), m \in Held(chatSessions') :
                   LET before == chatSessions[n].messages
                       after == chatSessions'[m].messages
                   IN /\ Len(after) = Len(before) + 1
                      /\ \A k \in 1..Len(before) : after[k] = before[k]
                      /\ after[Len(after)].type = "ai"
                      /\ after[Len(after)].content # ""]_vars

\* C21: the sweep of the service worker removes the agent of no session that
\* has an approval request waiting for its decision or a turn whose agent
\* is running.
C21_SweepSparesBusySessions ==
  [][\A sid \in activeAgents \ activeAgents' :
       /\ \A r \in 1..Len(requests) :
            requests[r].sessionId = sid => requests[r].decision # "pending"
       /\ \A i \in 1..Len(turns) :
            turns[i].session = sid => turns[i].phase # "model"]_vars

\* C22: whether agent.invoke asks for approval depends on the name of the
\* tool alone: for a first tool call to one of sensitiveTools it returns an
\* interrupt, for any other it does not.
C22_SensitivityStaticPerTool ==
  (lastInvoke.kind # "none" /\ Len(lastInvoke.response.tool_calls) > 0) =>
    (lastInvoke.response.tool_calls[1].name \in sensitiveTools
       <=> lastInvoke.kind = "interrupt")

\* C23: when the execution context answered success = false, the text the
\* tool returned reports the failure and does not read as a success.
C23_NoFailureReadsAsSuccess ==
  lastInvoke.outcome = "failure" =>
    /\ ~Contains(lastInvoke.content, "Found")
    /\ ~Contains(lastInvoke.content, "Successfully")
    /\ Contains(lastInvoke.content, "Failed") \/ Contains(lastInvoke.content, "Error")

\* C25: a pending approval leaves pendingApproval only in the step that
\* folds the answer to a decision made for it; no other step replaces or
\* clears it.
C25_PendingOnlyResolvedExplicitly ==
  [][(pendingApproval # NoApproval /\ pendingApproval' # pendingApproval) =>
       \E j \in 1..Len(approvals) :
         /\ approvals[j].req = pendingApproval.req
         /\ approvals' = RemoveAt(approvals, j)]_vars

\* C26: the step that completes a turn brings back no session that was
\* deleted while the turn was in flight, neither into the session list nor
\* into storage.
C26_DeletedSessionStaysDeleted ==
  [][\A i \in 1..Len(turns) :
       turns' = RemoveAt(turns, i) =>
         \A sid \in turns[i].deleted :
           /\ \A n \in 1..Len(chatSessions') : chatSessions'[n].id # sid
           /\ \A n \in 1..Len(storage'.chatSessions) :
                storage'.chatSessions[n].id # sid]_vars

\* C27: the model is called with the system instruction followed by the
\* conversation of the session in append order, every message once, the
\* last being the user message of the turn.
C27_ModelInputIsConversation ==
  \A i \in 1..Len(turns) :
    LET messages == turns[i].messages
        conversation == turns[i].updatedMessages
    IN /\ Len(messages) = Len(conversation) + 1
       /\ messages[1] = SystemMessage(systemPrompt)
       /\ \A k \in 1..Len(conversation) :
            /\ messages[k + 1].content = conversation[k].content
            /\ messages[k + 1].role = "human" <=> conversation[k].type = "user"

\* C28: when the first tool call of the model's response is to a sensitive
\* tool, the step in which invoke takes up the response leaves an approval
\* pending that carries the name and the arguments of that call and the id
\* of the session the turn was submitted in.
C28_PendingCarriesFirstSensitiveCall ==
  [][\A i \in 1..Len(turns) :
       (/\ turns[i].phase = "model"
        /\ lastInvoke' # lastInvoke
        /\ lastInvoke'.turn = turns[i].id
        /\ Len(lastInvoke'.response.tool_calls) > 0
        /\ lastInvoke'.response.tool_calls[1].name \in sensitiveTools) =>
         /\ pendingApproval'.sessionId = turns[i].session
         /\ pendingApproval'.interrupt = lastInvoke'.response.tool_calls[1]]_vars

\* C29 as stated: when the model's response holds no tool calls, the turn
\* ends in the step that takes up the response, with no approval request
\* and no dispatch, and the content handed back and folded into the
\* conversation is the content of the response.
C29_NoToolCallsReturnsContent ==
  [][\A i \in 1..Len(turns) :
       (/\ turns[i].phase = "model"
        /\ lastInvoke' # lastInvoke
        /\ lastInvoke'.turn = turns[i].id
        /\ lastInvoke'.response.tool_calls = <<>>) =>
         LET messages == currentSession'.messages
         IN /\ turns' = RemoveAt(turns, i)
            /\ requests' = requests
            /\ pendingApproval' = pendingApproval
            /\ dispatched' = dispatched
            /\ lastInvoke'.content = lastInvoke'.response.content
            /\ messages[Len(messages)].content = lastInvoke'.response.content]_vars

\* C29 amended: as above, but the content handed back is the content of the
\* response when it is not empty and "Task completed successfully."
\* when it is.
C29_NoToolCallsReturnsContentOrDefault ==
  [][\A i \in 1..Len(turns) :
       (/\ turns[i].phase = "model"
        /\ lastInvoke' # lastInvoke
        /\ lastInvoke'.turn = turns[i].id
        /\ lastInvoke'.response.tool_calls = <<>>) =>
         LET messages == currentSession'.messages
             expected == IF lastInvoke'.response.content # ""
                         THEN lastInvoke'.response.content
                         ELSE "Task completed successfully."
         IN /\ turns' = RemoveAt(turns, i)
            /\ requests' = requests
            /\ pendingApproval' = pendingApproval
            /\ dispatched' = dispatched
            /\ lastInvoke'.kind = "final"
            /\ lastInvoke'.content = expected
            /\ currentSession'.id = turns[i].session
            /\ Len(messages) = Len(turns[i].updatedMessages) + 1
            /\ messages[Len(messages)] = Message("ai", expected)]_vars

\* a turn has ended on a response without tool calls and without content
C29_Witness ==
  /\ lastInvoke.kind = "final"
  /\ lastInvoke.response = [content |-> "", tool_calls |-> <<>>]
  /\ turns = <<>>
  /\ requests = <<>>
  /\ dispatched = <<>>
  /\ pendingApproval = NoApproval
  /\ currentSession.messages =
       <<Message("user", "m1"), Message("ai", "Task completed successfully.")>>

\* C30: the request of a tool goes to the tab that is active when the tool
\* sends it if the call carries no tabId, and to the tab of the tabId the
\* call carries if it has one.
C30_TargetResolvedAtDispatch ==
  [][\A i \in 1..Len(turns) :
       (/\ turns[i].phase = "tool"
        /\ Len(dispatched') = Len(dispatched) + 1
        /\ dispatched'[Len(dispatched')].turn = turns[i].id) =>
         dispatched'[Len(dispatched')].tab =
           IF turns[i].call.tabId = NoTabId THEN activeTab
           ELSE turns[i].call.tabId]_vars

\* C24: a run of the listener for a selector based action whose selector
\* matches no element of the document does not throw and answers once,
\* with success = false and an error.
C24_MissingElementAnswersFailure ==
  [][(/\ listener' # listener
      /\ listener'.type \in SelectorActions
      /\ listener'.selector \notin page) =>
       /\ ~listener'.threw
       /\ Len(listener'.answers) = 1
       /\ ~listener'.answers[1].success
       /\ listener'.answers[1].error # ""]_vars

\* C31: the sweep is deterministic: in every state the set of sessions a
\* run of the sweep removes is one set, fixed by the state (two runs from
\* the same state remove the same sessions).
C31_SweepDeterministic ==
  \A first, second \in SUBSET activeAgents :
    (ENABLED CleanUp(first) /\ ENABLED CleanUp(second)) => first = second

\* C32: a run of the content script's listener has answered the message it
\* was given exactly once when it returns without throwing, and a message
\* that starts a wait is answered at most once, and once when the timer of
\* the wait has run.
C32_EveryMessageAnsweredOnce ==
  /\ (listener.type # "" /\ ~(script = "background.ts" /\ listener.type = "WAIT_FOR_ELEMENT")) =>
       (~listener.threw /\ Len(listener.answers) = 1)
  /\ wait # NoWait =>
       /\ Len(wait.answers) <= 1
       /\ ~wait.timer => Len(wait.answers) = 1

\* C33: a call of waitForElement with a valid selector is answered at most
\* once; once its timer has run it has been answered, with success when the
\* selector matched an element at the call or at some moment before the
\* timer ran, and with 'Element did not appear within timeout' otherwise.
C33_WaitResolvesOnceByTimeout ==
  (wait # NoWait /\ ValidSelector(wait.selector)) =>
    /\ Len(wait.answers) <= 1
    /\ ~wait.timer =>
         /\ Len(wait.answers) = 1
         /\ wait.answers[1] =
              IF wait.appeared THEN Success
              ELSE Failure("Element did not appear within timeout")

\* C34: the step that folds the answer to a decision appends its message to
\* the session the pending approval was recorded for, and leaves the
\* conversation of every other session as it was (sessions told apart by
\* their ids).
C34_ApprovalMessageGoesToItsSession ==
  [][\A j \in 1..Len(approvals) :
       (/\ approvals[j].phase = "response"
        /\ approvals' = RemoveAt(approvals, j)
        /\ \A n, m \in 1..Len(chatSessions) :
             chatSessions[n].id = chatSessions[m].id => n = m) =>
         LET sid == approvals[j].sessionId
         IN /\ Len(chatSessions') = Len(chatSessions)
            /\ \A n \in 1..Len(chatSessions) :
                 /\ chatSessions'[n].id = chatSessions[n].id
                 /\ chatSessions[n].id # sid =>
                      chatSessions'[n].messages = chatSessions[n].messages
                 /\ (chatSessions[n].id = sid /\ approvals[j].content # "") =>
                      chatSessions'[n].messages =
                        Append(chatSessions[n].messages,
                               Message("ai", approvals[j].content))]_vars

\* C35: the currentSessionId held in storage is absent or the id of one of
\* the sessions held in storage with it.
C35_StoredCurrentSessionExists ==
  \/ storage.currentSessionId = 0
  \/ \E n \in 1..Len(storage.chatSessions) :
       storage.chatSessions[n].id = storage.currentSessionId

\* C36: the sessions of chatSessions have pairwise distinct ids.
C36_SessionIdsUnique ==
  \A n, m \in 1..Len(chatSessions) :
    chatSessions[n].id = chatSessions[m].id => n = m

\* C37: a getApiKey(p) that ran with no other call in flight returns the
\* trimmed key of the last storeApiKey(p, k) that took effect, or null after
\* removeApiKey(p) or storeApiKey(p, empty); hasApiKey(p) tells which; and
\* the write of a call on one provider leaves the entry of the other
\* provider as it was.
C37_RoundTrip ==
  [][\A i \in 1..Len(ops) :
       LET o == ops[i]
       IN /\ (o.pc = "return" /\ o.solo /\ ops' = RemoveAt(ops, i)) =>
               /\ o.op = "getApiKey" => returned'.value = intended[o.provider]
               /\ o.op = "hasApiKey" =>
                    returned'.value = (intended[o.provider] # Null)
          /\ (o.pc = "settings_set" /\ Len(ops') = Len(ops) /\ ops'[i].pc = "return") =>
               \A other \in Providers \ {o.provider} :
                 local'.secure_settings[other] = local.secure_settings[other]]_vars

C39_OverlappingStoresBothKept ==
  (ops = <<>> /\ \A provider \in Providers : intended[provider] # Null) =>
    \A provider \in Providers :
      decrypt(local.secure_settings[provider], local.extension_key)
        = intended[provider]
====
